---- MODULE Spec2Model ----
(***************************************************************************)
(* HD44780 character LCD behind a PCF8574-class I2C expander: the two      *)
(* drivers of the repository, Lcd (lcd_i2c_rs/src/lib.rs) and SimpleLcd    *)
(* (src/main.rs).  Every driver method is an operator from the driver      *)
(* struct d to the sequence of effects the method performs, in program     *)
(* order, when no I2C write fails:                                         *)
(*   "w"  an I2C write transaction (the bytes after the address byte),     *)
(*   "d"  a blocking delay, in microseconds,                               *)
(*   "s"  an assignment to the struct's fields (the struct afterwards),    *)
(*   "e"  an early return of Err(msg), or a panic (msg in Panics).         *)
(* Every write is followed by `?` (or .expect), so a call runs its effects *)
(* up to the first "e" or the first failing write: Exec.  Every action is  *)
(* one whole public call on the driver.                                    *)
(***************************************************************************)
EXTENDS Integers, Sequences, FiniteSets, TLC

VARIABLES lcd, call, bus, ret, profile

vars == <<lcd, call, bus, ret, profile>>

(***************************************************************************)
(* u8 arithmetic.                                                          *)
(***************************************************************************)
RECURSIVE BitAnd(_, _)
BitAnd(a, b) ==
    IF a = 0 \/ b = 0 THEN 0
    ELSE (a % 2) * (b % 2) + 2 * BitAnd(a \div 2, b \div 2)

RECURSIVE BitOr(_, _)
BitOr(a, b) ==
    IF a = 0 THEN b
    ELSE IF b = 0 THEN a
    ELSE (IF a % 2 = 1 \/ b % 2 = 1 THEN 1 ELSE 0) + 2 * BitOr(a \div 2, b \div 2)

BitNot(a) == 255 - a

Shl(a, k) == (a * (2 ^ k)) % 256

AsU8(x) == x % 256

(***************************************************************************)
(* Constants (src/main.rs:19-40; lcd_i2c_rs/src/consts.rs is not in src/). *)
(***************************************************************************)
LCD_ADDRESS == 39
LCD_BACKLIGHT == 8
LCD_NOBACKLIGHT == 0
EN == 4
RS == 1
LCD_CLEARDISPLAY == 1
LCD_RETURNHOME == 2
LCD_ENTRYMODESET == 4
LCD_DISPLAYCONTROL == 8
LCD_CURSORSHIFT == 16
LCD_FUNCTIONSET == 32
LCD_SETCGRAMADDR == 64
LCD_SETDDRAMADDR == 128
LCD_ENTRYLEFT == 2
LCD_ENTRYSHIFTDECREMENT == 0
LCD_ENTRYSHIFTINCREMENT == 1
LCD_DISPLAYON == 4
LCD_CURSORON == 2
LCD_CURSOROFF == 0
LCD_BLINKON == 1
LCD_BLINKOFF == 0
LCD_DISPLAYMOVE == 8
LCD_MOVERIGHT == 4
LCD_MOVELEFT == 0
LCD_4BITMODE == 0
LCD_2LINE == 8
LCD_1LINE == 0
LCD_5X8DOTS == 0

(***************************************************************************)
(* Effects.                                                                *)
(***************************************************************************)
Write(bytes, onfail) == [k |-> "w", b |-> bytes, onfail |-> onfail]

Delay(t) == [k |-> "d", us |-> t]

Store(d) == [k |-> "s", d |-> d]

Err(msg) == [k |-> "e", msg |-> msg]

\* The panics: a process abort, not a Result.
PanicExpect == "panic: Failed to write to expander"

PanicOverflow == "panic: attempt to add with overflow"

PanicDivide == "panic: attempt to divide by zero"

PanicIndex == "panic: index out of bounds"

Panics == {PanicExpect, PanicOverflow, PanicDivide, PanicIndex}

Min(S) == CHOOSE x \in S : \A y \in S : x <= y

Max(S) == CHOOSE x \in S : \A y \in S : y <= x

\* The struct after the effects eff ran from the struct d: the last assignment.
After(d, eff) ==
    LET S == {i \in 1..Len(eff) : eff[i].k = "s"}
    IN  IF S = {} THEN d ELSE eff[Max(S)].d

delay_us(t) == <<Delay(t)>>

delay_ms(t) == <<Delay(t * 1000)>>

(***************************************************************************)
(* Lcd (lcd_i2c_rs/src/lib.rs): the low-level writes.                      *)
(***************************************************************************)
new(cols, rows) ==
    [variant |-> "Lcd", cols |-> cols, rows |-> rows,
     display_mode |-> BitOr(LCD_ENTRYLEFT, LCD_ENTRYSHIFTDECREMENT),
     display_control |-> BitOr(BitOr(LCD_DISPLAYON, LCD_CURSOROFF), LCD_BLINKOFF),
     backlight |-> LCD_NOBACKLIGHT, current_line |-> 0]

\* bytes = [0, data]; a failed write hits .expect(...) and panics.
expander_write(d, data) == <<Write(<<0, data>>, PanicExpect)>>

\* Mutant of pulse_enable: the data bits are dropped while Enable is high.
pulse_enable_strobe_alone(d, data) ==
    expander_write(d, BitOr(EN, d.backlight))
        \o delay_us(1)
        \o expander_write(d, BitOr(BitAnd(data, BitNot(EN)), d.backlight))
        \o delay_us(50)

pulse_enable(d, data) ==
    expander_write(d, BitOr(BitOr(data, EN), d.backlight))
        \o delay_us(1)
        \o expander_write(d, BitOr(BitAnd(data, BitNot(EN)), d.backlight))
        \o delay_us(50)

write4bits(d, data) == expander_write(d, data) \o pulse_enable(d, data)

\* Mutant of send: the low nibble goes out first.
send_low_first(d, value, mode) ==
    LET high_nibble == BitAnd(value, 240)
        low_nibble == BitAnd(Shl(value, 4), 240)
        high_cmd == BitOr(BitOr(high_nibble, mode), d.backlight)
        low_cmd == BitOr(BitOr(low_nibble, mode), d.backlight)
    IN  write4bits(d, low_cmd) \o write4bits(d, high_cmd)

send(d, value, mode) ==
    LET high_nibble == BitAnd(value, 240)
        low_nibble == BitAnd(Shl(value, 4), 240)
        high_cmd == BitOr(BitOr(high_nibble, mode), d.backlight)
        low_cmd == BitOr(BitOr(low_nibble, mode), d.backlight)
    IN  write4bits(d, high_cmd) \o write4bits(d, low_cmd)

(***************************************************************************)
(* SimpleLcd (src/main.rs): the low-level writes.                          *)
(***************************************************************************)
SimpleLcd_new ==
    [variant |-> "SimpleLcd", backlight |-> LCD_NOBACKLIGHT,
     display_control |-> BitOr(BitOr(LCD_DISPLAYON, LCD_CURSOROFF), LCD_BLINKOFF),
     display_mode |-> BitOr(LCD_ENTRYLEFT, LCD_ENTRYSHIFTDECREMENT)]

\* bytes = [data]; a failed write is mapped to Err("I2C write failed").
SimpleLcd_expander_write(d, data) == <<Write(<<data>>, "I2C write failed")>>

SimpleLcd_pulse_enable(d, data) ==
    SimpleLcd_expander_write(d, BitOr(BitOr(data, EN), d.backlight))
        \o delay_us(1)
        \o SimpleLcd_expander_write(d, BitOr(BitAnd(data, BitNot(EN)), d.backlight))
        \o delay_us(50)

SimpleLcd_write4bits(d, data) ==
    SimpleLcd_expander_write(d, data) \o SimpleLcd_pulse_enable(d, data)

SimpleLcd_send(d, value, mode) ==
    LET high_nibble == BitAnd(value, 240)
        low_nibble == BitAnd(Shl(value, 4), 240)
        high_cmd == BitOr(BitOr(high_nibble, mode), d.backlight)
        low_cmd == BitOr(BitOr(low_nibble, mode), d.backlight)
    IN  SimpleLcd_write4bits(d, high_cmd) \o SimpleLcd_write4bits(d, low_cmd)

(***************************************************************************)
(* Lcd (lcd_i2c_rs/src/lib.rs): the public methods.                        *)
(***************************************************************************)
display_on(d) ==
    LET d1 == [d EXCEPT !.display_control = BitOr(@, LCD_DISPLAYON)]
    IN  <<Store(d1)>> \o send(d1, BitOr(LCD_DISPLAYCONTROL, d1.display_control), 0)

display_off(d) ==
    LET d1 == [d EXCEPT !.display_control = BitAnd(@, BitNot(LCD_DISPLAYON))]
    IN  <<Store(d1)>> \o send(d1, BitOr(LCD_DISPLAYCONTROL, d1.display_control), 0)

\* Mutant of backlight_on: the field is set and the bus is left for the next command.
backlight_on_deferred(d) == <<Store([d EXCEPT !.backlight = LCD_BACKLIGHT])>>

backlight_on(d) ==
    LET d1 == [d EXCEPT !.backlight = LCD_BACKLIGHT]
    IN  <<Store(d1)>> \o expander_write(d1, d1.backlight)

backlight_off(d) ==
    LET d1 == [d EXCEPT !.backlight = LCD_NOBACKLIGHT]
    IN  <<Store(d1)>> \o expander_write(d1, d1.backlight)

\* Mutant of clear: current_line is left as it was.
clear_keeps_line(d) == send(d, LCD_CLEARDISPLAY, 0) \o delay_us(2000)

clear(d) ==
    send(d, LCD_CLEARDISPLAY, 0) \o delay_us(2000) \o <<Store([d EXCEPT !.current_line = 0])>>

\* Mutant of row_offsets: the 4-row table has its last two offsets exchanged.
row_offsets_swapped(rows) ==
    CASE rows = 1 -> <<0>>
      [] rows = 2 -> <<0, 64>>
      [] rows = 4 -> <<0, 64, 84, 20>>
      [] OTHER -> <<>>

\* Mutant of row_offsets: any other row count falls back to the 2-row table.
row_offsets_default(rows) ==
    CASE rows = 1 -> <<0>>
      [] rows = 2 -> <<0, 64>>
      [] rows = 4 -> <<0, 64, 20, 84>>
      [] OTHER -> <<0, 64>>

\* match self.rows { 1 => .., 2 => .., 4 => .., _ => return Err }; <<>> is the Err arm.
\* Mutant of row_offsets: the third and fourth rows start after 16 columns.
row_offsets_sixteen(rows) ==
    CASE rows = 1 -> <<0>>
      [] rows = 2 -> <<0, 64>>
      [] rows = 4 -> <<0, 64, 16, 80>>
      [] OTHER -> <<>>

row_offsets(rows) ==
    CASE rows = 1 -> <<0>>
      [] rows = 2 -> <<0, 64>>
      [] rows = 4 -> <<0, 64, 20, 84>>
      [] OTHER -> <<>>

\* Mutant of set_cursor: the geometry is checked before the row.
set_cursor_geometry_first(d, col, row) ==
    IF row_offsets(d.rows) = <<>> THEN <<Err("Invalid number of rows")>>
    ELSE IF row >= d.rows THEN <<Err("Row out of bounds")>>
    ELSE LET sum == col + row_offsets(d.rows)[row + 1]
         IN  IF sum > 255 /\ profile THEN <<Err(PanicOverflow)>>
             ELSE send(d, BitOr(LCD_SETDDRAMADDR, AsU8(sum)), 0)
                      \o <<Store([d EXCEPT !.current_line = row])>>

\* col + row_offsets[row] is a u8 addition: it panics in a build that checks
\* overflow (profile) and wraps otherwise.
set_cursor(d, col, row) ==
    IF row >= d.rows THEN <<Err("Row out of bounds")>>
    ELSE IF row_offsets(d.rows) = <<>> THEN <<Err("Invalid number of rows")>>
    ELSE LET sum == col + row_offsets(d.rows)[row + 1]
         IN  IF sum > 255 /\ profile THEN <<Err(PanicOverflow)>>
             ELSE send(d, BitOr(LCD_SETDDRAMADDR, AsU8(sum)), 0)
                      \o <<Store([d EXCEPT !.current_line = row])>>

\* Mutant of cursor: the command carries the cursor bit alone, not the field.
cursor_bit_alone(d, on) ==
    LET d1 == [d EXCEPT !.display_control =
                   IF on THEN BitOr(@, LCD_CURSORON) ELSE BitAnd(@, BitNot(LCD_CURSORON))]
    IN  <<Store(d1)>>
           \o send(d1, BitOr(LCD_DISPLAYCONTROL, IF on THEN LCD_CURSORON ELSE 0), 0)

cursor(d, on) ==
    LET d1 == [d EXCEPT !.display_control =
                   IF on THEN BitOr(@, LCD_CURSORON) ELSE BitAnd(@, BitNot(LCD_CURSORON))]
    IN  <<Store(d1)>> \o send(d1, BitOr(LCD_DISPLAYCONTROL, d1.display_control), 0)

blink(d, on) ==
    LET d1 == [d EXCEPT !.display_control =
                   IF on THEN BitOr(@, LCD_BLINKON) ELSE BitAnd(@, BitNot(LCD_BLINKON))]
    IN  <<Store(d1)>> \o send(d1, BitOr(LCD_DISPLAYCONTROL, d1.display_control), 0)

\* ch as u8 keeps the low 8 bits of the char's code point.
print(d, ch) == send(d, AsU8(ch), RS)

\* for ch in str.chars() { self.print(ch)? }, the chars lo..hi (1-based) in order;
\* the range is split in halves to keep the evaluation shallow.
RECURSIVE print_str_loop(_, _, _, _)
print_str_loop(d, str, lo, hi) ==
    IF lo > hi THEN <<>>
    ELSE IF lo = hi THEN print(d, str[lo])
    ELSE print_str_loop(d, str, lo, (lo + hi) \div 2)
             \o print_str_loop(d, str, (lo + hi) \div 2 + 1, hi)

\* A print_str that stops before the last character.
print_str_short(d, str) == print_str_loop(d, str, 1, Len(str) - 1)

print_str(d, str) == print_str_loop(d, str, 1, Len(str))

\* The loop body of print_long_str for the 0-based index i: (i as u8) % cols and
\* (i as u8) / cols panic when cols = 0.
print_long_str_step(d, i, ch) ==
    IF d.cols = 0 THEN <<Err(PanicDivide)>>
    ELSE LET col == AsU8(i) % d.cols
             row0 == AsU8(i) \div d.cols
             row == IF row0 >= d.rows THEN 0 ELSE row0
             e == set_cursor(d, col, row)
         IN  e \o print(After(d, e), ch)

\* The loop over the 0-based indices lo..hi in order, the struct threaded through;
\* the range is split in halves to keep the evaluation shallow.
RECURSIVE print_long_str_loop(_, _, _, _)
print_long_str_then(d, str, done, lo, hi) ==
    done \o print_long_str_loop(After(d, done), str, lo, hi)

print_long_str_loop(d, str, lo, hi) ==
    IF lo > hi THEN <<>>
    ELSE IF lo = hi THEN print_long_str_step(d, lo, str[lo + 1])
    ELSE print_long_str_then(d, str, print_long_str_loop(d, str, lo, (lo + hi) \div 2),
                             (lo + hi) \div 2 + 1, hi)

print_long_str(d, str) ==
    print_long_str_then(d, str, set_cursor(d, 0, 0), 0, Len(str) - 1)

autoscroll(d, on) ==
    LET d1 == [d EXCEPT !.display_mode =
                   IF on THEN BitOr(@, LCD_ENTRYSHIFTINCREMENT)
                   ELSE BitAnd(@, BitNot(LCD_ENTRYSHIFTINCREMENT))]
    IN  <<Store(d1)>> \o send(d1, BitOr(LCD_ENTRYMODESET, d1.display_mode), 0)

scroll_left(d) == send(d, BitOr(BitOr(LCD_CURSORSHIFT, LCD_DISPLAYMOVE), LCD_MOVELEFT), 0)

scroll_right(d) == send(d, BitOr(BitOr(LCD_CURSORSHIFT, LCD_DISPLAYMOVE), LCD_MOVERIGHT), 0)

left_to_right(d) ==
    LET d1 == [d EXCEPT !.display_mode = BitOr(@, LCD_ENTRYLEFT)]
    IN  <<Store(d1)>> \o send(d1, BitOr(LCD_ENTRYMODESET, d1.display_mode), 0)

right_to_left(d) ==
    LET d1 == [d EXCEPT !.display_mode = BitAnd(@, BitNot(LCD_ENTRYLEFT))]
    IN  <<Store(d1)>> \o send(d1, BitOr(LCD_ENTRYMODESET, d1.display_mode), 0)

home(d) == send(d, LCD_RETURNHOME, 0) \o delay_us(2000)

\* Mutant of next_line: the wrap compares with rows - 1.
next_line_wraps(d) ==
    IF d.rows = 1 THEN <<Err("Next line not supported on 1 row display")>>
    ELSE LET d1 == IF d.current_line >= d.rows - 1
                   THEN [d EXCEPT !.current_line = 0]
                   ELSE [d EXCEPT !.current_line = @ + 1]
         IN  <<Store(d1)>> \o set_cursor(d1, 0, d1.current_line)

\* Mutant of next_line: current_line is incremented whatever it is.
next_line_unbounded(d) ==
    IF d.rows = 1 THEN <<Err("Next line not supported on 1 row display")>>
    ELSE LET d1 == [d EXCEPT !.current_line = @ + 1]
         IN  <<Store(d1)>> \o set_cursor(d1, 0, d1.current_line)

next_line(d) ==
    IF d.rows = 1 THEN <<Err("Next line not supported on 1 row display")>>
    ELSE LET d1 == IF d.current_line >= d.rows
                   THEN [d EXCEPT !.current_line = 0]
                   ELSE [d EXCEPT !.current_line = @ + 1]
         IN  <<Store(d1)>> \o set_cursor(d1, 0, d1.current_line)

\* for i in 0..8 { self.send(charmap[i], RS)? }: charmap[i] panics past the slice's end.
RECURSIVE create_custom_chars_loop(_, _, _)
create_custom_chars_loop(d, charmap, i) ==
    IF i >= 8 THEN <<>>
    ELSE IF i >= Len(charmap) THEN <<Err(PanicIndex)>>
    ELSE send(d, charmap[i + 1], RS) \o create_custom_chars_loop(d, charmap, i + 1)

\* Mutant of create_custom_chars: the slot is shifted by 4, not by 3.
create_custom_chars_shift4(d, location, charmap) ==
    IF location > 7 THEN <<Err("Custom character location out of bounds")>>
    ELSE send(d, BitOr(LCD_SETCGRAMADDR, Shl(location, 4)), 0)
             \o create_custom_chars_loop(d, charmap, 0)

\* Mutant of create_custom_chars: the address pointer is put back into DDRAM.
create_custom_chars_restoring(d, location, charmap) ==
    IF location > 7 THEN <<Err("Custom character location out of bounds")>>
    ELSE send(d, BitOr(LCD_SETCGRAMADDR, Shl(location, 3)), 0)
             \o create_custom_chars_loop(d, charmap, 0)
             \o send(d, LCD_SETDDRAMADDR, 0)

create_custom_chars(d, location, charmap) ==
    IF location > 7 THEN <<Err("Custom character location out of bounds")>>
    ELSE send(d, BitOr(LCD_SETCGRAMADDR, Shl(location, 3)), 0)
             \o create_custom_chars_loop(d, charmap, 0)

\* One round of: for _ in 0..3 { self.write4bits((0x03 << 4) | self.backlight)?; delay_us(4500) }
init_wakeup(d) == write4bits(d, BitOr(Shl(3, 4), d.backlight)) \o delay_us(4500)

\* init from display_on() on: the struct d7 carries the assignment of line 91.
init_tail(d7) ==
    LET e8 == display_on(d7)
        d8 == After(d7, e8)
        e9 == clear(d8)
        d9 == After(d8, e9)
        d10 == [d9 EXCEPT !.display_mode = BitOr(LCD_ENTRYLEFT, LCD_ENTRYSHIFTDECREMENT)]
    IN  e8 \o e9 \o <<Store(d10)>>
           \o send(d10, BitOr(LCD_ENTRYMODESET, d10.display_mode), 0)
           \o send(d10, LCD_RETURNHOME, 0)
           \o delay_us(2000)

\* Mutant of init: the 0x3 nibble is written twice, not three times.
init_two_wakeups(d) ==
    LET display_function ==
            IF d.rows > 1 THEN BitOr(BitOr(LCD_4BITMODE, LCD_2LINE), LCD_5X8DOTS)
            ELSE BitOr(BitOr(LCD_4BITMODE, LCD_1LINE), LCD_5X8DOTS)
        d7 == [d EXCEPT !.display_control =
                   BitOr(BitOr(LCD_DISPLAYON, LCD_CURSOROFF), LCD_BLINKOFF)]
    IN  delay_ms(50)
           \o expander_write(d, d.backlight)
           \o delay_ms(1000)
           \o init_wakeup(d) \o init_wakeup(d)
           \o write4bits(d, BitOr(Shl(2, 4), d.backlight))
           \o send(d, BitOr(LCD_FUNCTIONSET, display_function), 0)
           \o <<Store(d7)>>
           \o init_tail(d7)

init(d) ==
    LET display_function ==
            IF d.rows > 1 THEN BitOr(BitOr(LCD_4BITMODE, LCD_2LINE), LCD_5X8DOTS)
            ELSE BitOr(BitOr(LCD_4BITMODE, LCD_1LINE), LCD_5X8DOTS)
        d7 == [d EXCEPT !.display_control =
                   BitOr(BitOr(LCD_DISPLAYON, LCD_CURSOROFF), LCD_BLINKOFF)]
    IN  delay_ms(50)
           \o expander_write(d, d.backlight)
           \o delay_ms(1000)
           \o init_wakeup(d) \o init_wakeup(d) \o init_wakeup(d)
           \o write4bits(d, BitOr(Shl(2, 4), d.backlight))
           \o send(d, BitOr(LCD_FUNCTIONSET, display_function), 0)
           \o <<Store(d7)>>
           \o init_tail(d7)

(***************************************************************************)
(* SimpleLcd (src/main.rs): the public methods.                            *)
(***************************************************************************)
SimpleLcd_clear(d) == SimpleLcd_send(d, LCD_CLEARDISPLAY, 0) \o delay_us(2000)

SimpleLcd_init_wakeup(d) ==
    SimpleLcd_write4bits(d, BitOr(Shl(3, 4), d.backlight)) \o delay_us(4500)

SimpleLcd_init(d) ==
    LET display_function == BitOr(BitOr(LCD_4BITMODE, LCD_2LINE), LCD_5X8DOTS)
        d7 == [d EXCEPT !.display_control =
                   BitOr(BitOr(LCD_DISPLAYON, LCD_CURSOROFF), LCD_BLINKOFF)]
        d10 == [d7 EXCEPT !.display_mode = BitOr(LCD_ENTRYLEFT, LCD_ENTRYSHIFTDECREMENT)]
    IN  delay_ms(50)
           \o SimpleLcd_expander_write(d, d.backlight)
           \o delay_ms(1000)
           \o SimpleLcd_init_wakeup(d) \o SimpleLcd_init_wakeup(d) \o SimpleLcd_init_wakeup(d)
           \o SimpleLcd_write4bits(d, BitOr(Shl(2, 4), d.backlight))
           \o SimpleLcd_send(d, BitOr(LCD_FUNCTIONSET, display_function), 0)
           \o <<Store(d7)>>
           \o SimpleLcd_send(d7, BitOr(LCD_DISPLAYCONTROL, d7.display_control), 0)
           \o SimpleLcd_clear(d7)
           \o <<Store(d10)>>
           \o SimpleLcd_send(d10, BitOr(LCD_ENTRYMODESET, d10.display_mode), 0)
           \o SimpleLcd_send(d10, LCD_RETURNHOME, 0)
           \o delay_us(2000)

SimpleLcd_backlight_on(d) ==
    LET d1 == [d EXCEPT !.backlight = LCD_BACKLIGHT]
    IN  <<Store(d1)>> \o SimpleLcd_expander_write(d1, d1.backlight)

\* row_offsets = [0x00, 0x40]; the bound is the literal 2.
SimpleLcd_set_cursor(d, col, row) ==
    LET offsets == <<0, 64>>
    IN  IF row >= 2 THEN <<Err("Row out of bounds")>>
        ELSE LET sum == col + offsets[row + 1]
             IN  IF sum > 255 /\ profile THEN <<Err(PanicOverflow)>>
                 ELSE SimpleLcd_send(d, BitOr(LCD_SETDDRAMADDR, AsU8(sum)), 0)

SimpleLcd_print_char(d, ch) == SimpleLcd_send(d, AsU8(ch), RS)

RECURSIVE SimpleLcd_print_str_loop(_, _, _, _)
SimpleLcd_print_str_loop(d, s, lo, hi) ==
    IF lo > hi THEN <<>>
    ELSE IF lo = hi THEN SimpleLcd_print_char(d, s[lo])
    ELSE SimpleLcd_print_str_loop(d, s, lo, (lo + hi) \div 2)
             \o SimpleLcd_print_str_loop(d, s, (lo + hi) \div 2 + 1, hi)

SimpleLcd_print_str(d, s) == SimpleLcd_print_str_loop(d, s, 1, Len(s))

(***************************************************************************)
(* Running a call: the effects up to the first early return, panic or      *)
(* failing write.                                                          *)
(***************************************************************************)
\* The position of the k-th write of eff at or after p; Len(eff) + 1 if there is none.
RECURSIVE NthWrite(_, _, _)
NthWrite(eff, p, k) ==
    IF p > Len(eff) THEN Len(eff) + 1
    ELSE IF eff[p].k # "w" THEN NthWrite(eff, p + 1, k)
    ELSE IF k = 1 THEN p
    ELSE NthWrite(eff, p + 1, k - 1)

\* fail: the index, among the call's I2C writes, of the write that fails (0: none).
ExecAt(d, eff, errPos, failPos) ==
    LET cut == IF errPos < failPos THEN errPos ELSE failPos
        done == SubSeq(eff, 1, cut - 1)
        io == SelectSeq(done, LAMBDA e : e.k \in {"w", "d"})
    IN  [d |-> After(d, done),
         log |-> [i \in 1..Len(io) |->
                     IF io[i].k = "w" THEN [k |-> "w", b |-> io[i].b, us |-> 0]
                     ELSE [k |-> "d", b |-> <<>>, us |-> io[i].us]],
         st |-> IF cut > Len(eff) THEN "ok"
                ELSE IF eff[cut].k = "w" THEN eff[cut].onfail
                ELSE eff[cut].msg]

Exec(d, eff, fail) ==
    LET E == {i \in 1..Len(eff) : eff[i].k = "e"}
        errPos == IF E = {} THEN Len(eff) + 1 ELSE Min(E)
    IN  ExecAt(d, eff, errPos,
               IF fail = 0 THEN Len(eff) + 1
               ELSE NthWrite(SubSeq(eff, 1, errPos - 1), 1, fail))

(***************************************************************************)
(* Inputs.                                                                 *)
(***************************************************************************)
\* The largest index of a failing I2C write within one call (0: no write fails).
MaxFail == 7

\* Row arguments are 0..MaxRowArg.
MaxRowArg == 4

\* The length of the long text.
LongLen == 35


\* <<cols, rows>> the driver is constructed with.
Geometries == {<<16, 2>>, <<20, 4>>, <<16, 1>>, <<16, 3>>, <<16, 0>>}

ColArgs == {0, 15, 200}

RowArgs == 0..MaxRowArg

\* Code points: 'H', the euro sign (U+20AC).
CharArgs == {72, 8364}

LongText == [i \in 1..LongLen |-> 64 + (i % 26)]

\* The length of a text whose indices do not all fit in 8 bits.
VeryLongLen == 257

VeryLongText == [i \in 1..VeryLongLen |-> 64 + (i % 26)]

\* "Hi", the empty string, the long text.
StrArgs == {<<72, 105>>, <<>>, LongText}

SlotArgs == {0, 7, 8}

\* An 8-row glyph, and a slice that is too short.
CharmapArgs == {<<0, 10, 31, 31, 14, 4, 0, 21>>, <<1, 2, 3>>}

(***************************************************************************)
(* The state: the driver struct, the last call with its arguments, what    *)
(* that call put on the bus, what it returned, and whether the build       *)
(* checks integer overflow (debug) or wraps (release).                     *)
(***************************************************************************)
Becomes(r, op, args, f) ==
    /\ lcd' = r.d
    /\ bus' = r.log
    /\ ret' = r.st
    /\ call' = [op |-> op, a |-> args, fail |-> f]
    /\ UNCHANGED profile

Returns(eff, op, args, f) == Becomes(Exec(lcd, eff, f), op, args, f)

\* The caller is between two calls.
Idle == call.op = "idle"

IsLcd == Idle /\ lcd.variant = "Lcd"

IsSimpleLcd == Idle /\ lcd.variant = "SimpleLcd"

NoCall == [op |-> "idle", a |-> <<>>, fail |-> 0]

Constructed(drivers) ==
    /\ profile \in BOOLEAN
    /\ lcd \in drivers
    /\ call = NoCall
    /\ bus = <<>>
    /\ ret = "ok"

Init == Constructed({new(g[1], g[2]) : g \in Geometries} \cup {SimpleLcd_new})

\* The call returned and the caller goes on to its next call, as main does after
\* each `let _ = lcd...` and each match on the Result.  A panic aborts the process:
\* nothing follows it.
Continue ==
    /\ ~Idle
    /\ ret \notin Panics
    /\ call' = NoCall
    /\ bus' = <<>>
    /\ ret' = "ok"
    /\ UNCHANGED <<lcd, profile>>

CallInit(Fails) == IsLcd /\ \E f \in Fails : Returns(init(lcd), "init", <<>>, f)

CallDisplayOn(Fails) == IsLcd /\ \E f \in Fails : Returns(display_on(lcd), "display_on", <<>>, f)

CallDisplayOff(Fails) == IsLcd /\ \E f \in Fails : Returns(display_off(lcd), "display_off", <<>>, f)

CallBacklightOn(Fails) ==
    IsLcd /\ \E f \in Fails : Returns(backlight_on(lcd), "backlight_on", <<>>, f)

CallBacklightOff(Fails) ==
    IsLcd /\ \E f \in Fails : Returns(backlight_off(lcd), "backlight_off", <<>>, f)

CallClear(Fails) == IsLcd /\ \E f \in Fails : Returns(clear(lcd), "clear", <<>>, f)

CallSetCursor(Fails) ==
    IsLcd /\ \E f \in Fails, col \in ColArgs, row \in RowArgs :
        Returns(set_cursor(lcd, col, row), "set_cursor", <<col, row>>, f)

CallCursor(Fails) ==
    IsLcd /\ \E f \in Fails, on \in BOOLEAN : Returns(cursor(lcd, on), "cursor", <<on>>, f)

CallBlink(Fails) ==
    IsLcd /\ \E f \in Fails, on \in BOOLEAN : Returns(blink(lcd, on), "blink", <<on>>, f)

CallPrint(Fails) ==
    IsLcd /\ \E f \in Fails, ch \in CharArgs : Returns(print(lcd, ch), "print", <<ch>>, f)

CallPrintStr(Fails) ==
    IsLcd /\ \E f \in Fails, str \in StrArgs :
        Returns(print_str(lcd, str), "print_str", <<str>>, f)

CallPrintLongStr(Fails) ==
    IsLcd /\ \E f \in Fails, str \in StrArgs :
        Returns(print_long_str(lcd, str), "print_long_str", <<str>>, f)

CallAutoscroll(Fails) ==
    IsLcd /\ \E f \in Fails, on \in BOOLEAN :
        Returns(autoscroll(lcd, on), "autoscroll", <<on>>, f)

CallScrollLeft(Fails) == IsLcd /\ \E f \in Fails : Returns(scroll_left(lcd), "scroll_left", <<>>, f)

CallScrollRight(Fails) ==
    IsLcd /\ \E f \in Fails : Returns(scroll_right(lcd), "scroll_right", <<>>, f)

CallLeftToRight(Fails) ==
    IsLcd /\ \E f \in Fails : Returns(left_to_right(lcd), "left_to_right", <<>>, f)

CallRightToLeft(Fails) ==
    IsLcd /\ \E f \in Fails : Returns(right_to_left(lcd), "right_to_left", <<>>, f)

CallHome(Fails) == IsLcd /\ \E f \in Fails : Returns(home(lcd), "home", <<>>, f)

CallNextLine(Fails) == IsLcd /\ \E f \in Fails : Returns(next_line(lcd), "next_line", <<>>, f)

CallCreateCustomChars(Fails) ==
    IsLcd /\ \E f \in Fails, location \in SlotArgs, charmap \in CharmapArgs :
        Returns(create_custom_chars(lcd, location, charmap),
                "create_custom_chars", <<location, charmap>>, f)

SimpleCallInit(Fails) ==
    IsSimpleLcd /\ \E f \in Fails : Returns(SimpleLcd_init(lcd), "init", <<>>, f)

SimpleCallBacklightOn(Fails) ==
    IsSimpleLcd /\ \E f \in Fails :
        Returns(SimpleLcd_backlight_on(lcd), "backlight_on", <<>>, f)

SimpleCallClear(Fails) ==
    IsSimpleLcd /\ \E f \in Fails : Returns(SimpleLcd_clear(lcd), "clear", <<>>, f)

SimpleCallSetCursor(Fails) ==
    IsSimpleLcd /\ \E f \in Fails, col \in ColArgs, row \in RowArgs :
        Returns(SimpleLcd_set_cursor(lcd, col, row), "set_cursor", <<col, row>>, f)

SimpleCallPrintChar(Fails) ==
    IsSimpleLcd /\ \E f \in Fails, ch \in CharArgs :
        Returns(SimpleLcd_print_char(lcd, ch), "print", <<ch>>, f)

SimpleCallPrintStr(Fails) ==
    IsSimpleLcd /\ \E f \in Fails, s \in StrArgs :
        Returns(SimpleLcd_print_str(lcd, s), "print_str", <<s>>, f)

Calls(Fails) ==
    \/ CallInit(Fails)
    \/ CallDisplayOn(Fails)
    \/ CallDisplayOff(Fails)
    \/ CallBacklightOn(Fails)
    \/ CallBacklightOff(Fails)
    \/ CallClear(Fails)
    \/ CallSetCursor(Fails)
    \/ CallCursor(Fails)
    \/ CallBlink(Fails)
    \/ CallPrint(Fails)
    \/ CallPrintStr(Fails)
    \/ CallPrintLongStr(Fails)
    \/ CallAutoscroll(Fails)
    \/ CallScrollLeft(Fails)
    \/ CallScrollRight(Fails)
    \/ CallLeftToRight(Fails)
    \/ CallRightToLeft(Fails)
    \/ CallHome(Fails)
    \/ CallNextLine(Fails)
    \/ CallCreateCustomChars(Fails)
    \/ SimpleCallInit(Fails)
    \/ SimpleCallBacklightOn(Fails)
    \/ SimpleCallClear(Fails)
    \/ SimpleCallSetCursor(Fails)
    \/ SimpleCallPrintChar(Fails)
    \/ SimpleCallPrintStr(Fails)

\* The bus does not fail.
Next == Calls({0}) \/ Continue

Spec == Init /\ [][Next]_vars

\* Any one I2C write of a call may fail; a 16x2 Lcd and the SimpleLcd.
NextFault == Calls(0..MaxFail) \/ Continue

SpecFault == Constructed({new(16, 2), SimpleLcd_new}) /\ [][NextFault]_vars

(***************************************************************************)
(* The protocol engine alone: send is private, so it is applied here to    *)
(* every value and both modes, under either backlight state.               *)
(***************************************************************************)
SendCall ==
    IsLcd /\ \E value \in 0..255, mode \in {0, RS} :
        Returns(send(lcd, value, mode), "send", <<value, mode>>, 0)

SimpleSendCall ==
    IsSimpleLcd /\ \E value \in 0..255, mode \in {0, RS} :
        Returns(SimpleLcd_send(lcd, value, mode), "send", <<value, mode>>, 0)

NextSend ==
    \/ SendCall
    \/ SimpleSendCall
    \/ CallBacklightOn({0})
    \/ CallBacklightOff({0})
    \/ SimpleCallBacklightOn({0})
    \/ Continue

SpecSend == Constructed({new(16, 2), SimpleLcd_new}) /\ [][NextSend]_vars

(***************************************************************************)
(* Text layout with texts longer than 255 characters.                      *)
(***************************************************************************)
PrintVeryLongText ==
    IsLcd /\ \E str \in {LongText, VeryLongText} :
        Returns(print_long_str(lcd, str), "print_long_str", <<str>>, 0)

NextText ==
    \/ PrintVeryLongText
    \/ CallSetCursor({0})
    \/ CallNextLine({0})
    \/ CallBacklightOn({0})
    \/ CallBacklightOff({0})
    \/ Continue

SpecText == Constructed({new(16, 2), new(20, 4), new(16, 1)}) /\ [][NextText]_vars

(***************************************************************************)
(* Sessions: a caller runs a fixed program of calls on one driver, and the *)
(* bus log is kept over the whole session, so that what the controller     *)
(* holds after several calls can be read from it.  call.pc is the number   *)
(* of calls made, call.faults the number of them that did not return Ok.   *)
(* As main does, the caller goes on after a call that returned Err; a      *)
(* panic ends the session.                                                 *)
(***************************************************************************)
\* The largest index of a failing I2C write within one call of a session.
SessionFail == 3

\* "Happy Bday!" and "Enjoy your day!"
HappyBday == <<72, 97, 112, 112, 121, 32, 66, 100, 97, 121, 33>>

EnjoyYourDay == <<69, 110, 106, 111, 121, 32, 121, 111, 117, 114, 32, 100, 97, 121, 33>>

\* An 8-row glyph (a heart).
Glyph == <<0, 10, 31, 31, 14, 4, 0, 21>>

\* The calls of main, in order.
MainProgram ==
    << <<"init", <<>>>>, <<"backlight_on", <<>>>>, <<"clear", <<>>>>,
       <<"set_cursor", <<0, 0>>>>, <<"print_str", <<HappyBday>>>>,
       <<"set_cursor", <<0, 1>>>>, <<"print_str", <<EnjoyYourDay>>>> >>

\* A caller that defines glyphs and prints before and after moving the cursor
\* or clearing the display.
GlyphProgram ==
    << <<"init", <<>>>>, <<"create_custom_chars", <<0, Glyph>>>>,
       <<"print", <<72>>>>, <<"set_cursor", <<0, 1>>>>,
       <<"print_str", <<HappyBday>>>>, <<"create_custom_chars", <<7, Glyph>>>>,
       <<"print_str", <<HappyBday>>>>, <<"clear", <<>>>>, <<"print", <<72>>>> >>

\* A caller that moves the cursor to the second row, homes it and asks for the
\* next line, then clears and asks again.
CursorProgram ==
    << <<"init", <<>>>>, <<"set_cursor", <<3, 1>>>>, <<"home", <<>>>>,
       <<"next_line", <<>>>>, <<"clear", <<>>>>, <<"next_line", <<>>>>,
       <<"print_long_str", <<HappyBday>>>> >>

Programs == [main |-> MainProgram, glyph |-> GlyphProgram, cursor |-> CursorProgram]

\* The call the session makes next, <<>> at the end of the program or after a panic.
NextCall ==
    IF ret \in Panics \/ call.pc >= Len(Programs[call.prog]) THEN <<>>
    ELSE Programs[call.prog][call.pc + 1]

\* The next call of the program is op.
Calling(op) == NextCall # <<>> /\ NextCall[1] = op

\* The call is made: eff is what the method does on the driver as it is.
SessionCall(op, eff) ==
    \E f \in 0..SessionFail :
        LET r == Exec(lcd, eff, f)
        IN  /\ lcd' = r.d
            /\ bus' = bus \o r.log
            /\ ret' = r.st
            /\ call' = [call EXCEPT !.op = op, !.a = NextCall[2], !.fail = f,
                                    !.pc = @ + 1,
                                    !.faults = IF r.st = "ok" THEN @ ELSE @ + 1]
            /\ UNCHANGED profile

SessionInit ==
    /\ Calling("init")
    /\ SessionCall("init",
           IF lcd.variant = "Lcd" THEN init(lcd) ELSE SimpleLcd_init(lcd))

SessionBacklightOn ==
    /\ Calling("backlight_on")
    /\ SessionCall("backlight_on",
           IF lcd.variant = "Lcd" THEN backlight_on(lcd)
           ELSE SimpleLcd_backlight_on(lcd))

SessionClear ==
    /\ Calling("clear")
    /\ SessionCall("clear",
           IF lcd.variant = "Lcd" THEN clear(lcd) ELSE SimpleLcd_clear(lcd))

SessionSetCursor ==
    /\ Calling("set_cursor")
    /\ SessionCall("set_cursor",
           IF lcd.variant = "Lcd" THEN set_cursor(lcd, NextCall[2][1], NextCall[2][2])
           ELSE SimpleLcd_set_cursor(lcd, NextCall[2][1], NextCall[2][2]))

SessionPrintStr ==
    /\ Calling("print_str")
    /\ SessionCall("print_str",
           IF lcd.variant = "Lcd" THEN print_str(lcd, NextCall[2][1])
           ELSE SimpleLcd_print_str(lcd, NextCall[2][1]))

SessionPrint ==
    /\ Calling("print")
    /\ SessionCall("print", print(lcd, NextCall[2][1]))

SessionPrintLongStr ==
    /\ Calling("print_long_str")
    /\ SessionCall("print_long_str", print_long_str(lcd, NextCall[2][1]))

SessionHome ==
    /\ Calling("home")
    /\ SessionCall("home", home(lcd))

SessionNextLine ==
    /\ Calling("next_line")
    /\ SessionCall("next_line", next_line(lcd))

SessionCreateCustomChars ==
    /\ Calling("create_custom_chars")
    /\ SessionCall("create_custom_chars",
           create_custom_chars(lcd, NextCall[2][1], NextCall[2][2]))

NextSession ==
    \/ SessionInit
    \/ SessionBacklightOn
    \/ SessionClear
    \/ SessionSetCursor
    \/ SessionPrintStr
    \/ SessionPrint
    \/ SessionPrintLongStr
    \/ SessionHome
    \/ SessionNextLine
    \/ SessionCreateCustomChars

\* main on either driver; the other programs on a 16x2 or 20x4 Lcd.
InitSession ==
    /\ profile \in BOOLEAN
    /\ \E s \in ({new(16, 2), SimpleLcd_new} \X {"main"})
                  \cup ({new(16, 2), new(20, 4)} \X {"glyph", "cursor"}) :
          /\ lcd = s[1]
          /\ call = [op |-> "idle", a |-> <<>>, fail |-> 0,
                     prog |-> s[2], pc |-> 0, faults |-> 0]
    /\ bus = <<>>
    /\ ret = "ok"

SpecSession == InitSession /\ [][NextSession]_vars

(***************************************************************************)
(* Cursor addressing alone: set_cursor with every column a u8 can hold, on *)
(* the widest displays of one, two and four rows, on a one-row display     *)
(* wider than the controller's DDRAM, and on SimpleLcd.                    *)
(***************************************************************************)
CursorGeometries == {<<40, 2>>, <<20, 4>>, <<80, 1>>, <<200, 1>>}

CursorCall ==
    IsLcd /\ \E col \in 0..255, row \in RowArgs :
        Returns(set_cursor(lcd, col, row), "set_cursor", <<col, row>>, 0)

SimpleCursorCall ==
    IsSimpleLcd /\ \E col \in 0..255, row \in RowArgs :
        Returns(SimpleLcd_set_cursor(lcd, col, row), "set_cursor", <<col, row>>, 0)

NextCursor ==
    \/ CursorCall
    \/ SimpleCursorCall
    \/ Continue

SpecCursor ==
    Constructed({new(g[1], g[2]) : g \in CursorGeometries} \cup {SimpleLcd_new})
        /\ [][NextCursor]_vars

(***************************************************************************)
(* Reading the bus log.  The expectations below are written in plain       *)
(* arithmetic, not with the driver's own operators.                        *)
(***************************************************************************)
\* The log as <<"w", data byte>> and <<"d", microseconds>>: the data byte of a
\* transaction is the last byte of its payload.
Abs(log) ==
    [i \in 1..Len(log) |->
        IF log[i].k = "w" THEN <<"w", log[i].b[Len(log[i].b)]>> ELSE <<"d", log[i].us>>]

\* Every byte the expander receives, in order.
RECURSIVE BytesOf(_, _, _)
BytesOf(log, lo, hi) ==
    IF lo > hi THEN <<>>
    ELSE IF lo = hi THEN log[lo].b
    ELSE BytesOf(log, lo, (lo + hi) \div 2) \o BytesOf(log, (lo + hi) \div 2 + 1, hi)

Bytes(log) == BytesOf(log, 1, Len(log))

\* Bit 2 (Enable) and bit 3 (backlight) of a byte.
EnBit(byte) == (byte \div 4) % 2

BlBit(byte) == (byte \div 8) % 2

\* The number of rising edges of the Enable line over a byte stream that starts low.
Rises(bytes) ==
    Cardinality({i \in 1..Len(bytes) :
                    EnBit(bytes[i]) = 1 /\ (i = 1 \/ EnBit(bytes[i - 1]) = 0)})

\* One nibble transaction: the byte, then the enable pulse (Enable set, 1 us,
\* Enable cleared, 50 us).  byte has Enable clear.
ExpNibble(byte) ==
    <<<<"w", byte>>, <<"w", byte + 4>>, <<"d", 1>>, <<"w", byte>>, <<"d", 50>>>>

\* send(value, mode) under backlight bit bl: the high nibble, then the low nibble.
ExpSend(value, mode, bl) ==
    ExpNibble((value \div 16) * 16 + mode + bl) \o ExpNibble((value % 16) * 16 + mode + bl)

(***************************************************************************)
(* C1: send(value, mode) on a bus that does not fail writes exactly two    *)
(* nibble transactions, the high nibble (value & 0xF0) first and the low   *)
(* nibble ((value << 4) & 0xF0) second, each immediately followed by one   *)
(* enable pulse (Enable set, 1 us, Enable cleared, 50 us) and by nothing   *)
(* else; the Enable line rises exactly twice.                              *)
(***************************************************************************)
C1_SendIsTwoPulsedNibbles ==
    (call.op = "send" /\ ret = "ok") =>
        /\ Abs(bus) = ExpSend(call.a[1], call.a[2], lcd.backlight)
        /\ Rises(Bytes(bus)) = 2

C1_Witness ==
    /\ call.op = "send" /\ ret = "ok"
    /\ call.a = <<165, 1>>
    /\ lcd.backlight = 8
    /\ Len(bus) = 10

(***************************************************************************)
(* C2: every byte written to the expander carries the backlight bit (0x08) *)
(* equal to the driver's backlight field, so that once backlight_on has    *)
(* been called no byte with the backlight bit clear reaches the expander.  *)
(* (backlight_on and backlight_off assign the field before their write,    *)
(* and nothing else assigns it, so the field after the call is the field   *)
(* at every write of the call.)                                            *)
(***************************************************************************)
C2_BacklightBitOnEveryByte ==
    \A i \in 1..Len(bus) :
        bus[i].k = "w" =>
            \A j \in 1..Len(bus[i].b) : BlBit(bus[i].b[j]) * 8 = lcd.backlight

\* The same of the data byte of each transaction alone (its last byte).
C2_BacklightBitOnEveryDataByte ==
    \A i \in 1..Len(bus) :
        bus[i].k = "w" => BlBit(bus[i].b[Len(bus[i].b)]) * 8 = lcd.backlight

(***************************************************************************)
(* The rows of the display: SimpleLcd has no rows field, its set_cursor    *)
(* and its FunctionSet are written for two rows.                           *)
(***************************************************************************)
RowsOf(d) == IF d.variant = "Lcd" THEN d.rows ELSE 2

\* init after its first three steps: 0x3 three times, each with a 4.5 ms wait, 0x2,
\* FunctionSet (0x20 | 0x08 for two lines), DisplayControl (0x08 | 0x04), clear
\* (0x01, 2 ms), EntryModeSet (0x04 | 0x02), ReturnHome (0x02), 2 ms.
ExpHandshake(bl, rows) ==
    ExpNibble(48 + bl) \o <<<<"d", 4500>>>>
        \o ExpNibble(48 + bl) \o <<<<"d", 4500>>>>
        \o ExpNibble(48 + bl) \o <<<<"d", 4500>>>>
        \o ExpNibble(32 + bl)
        \o ExpSend(IF rows > 1 THEN 40 ELSE 32, 0, bl)
        \o ExpSend(12, 0, bl)
        \o ExpSend(1, 0, bl) \o <<<<"d", 2000>>>>
        \o ExpSend(6, 0, bl)
        \o ExpSend(2, 0, bl) \o <<<<"d", 2000>>>>

(***************************************************************************)
(* C3 as stated: init() on a bus that does not fail first asserts the      *)
(* backlight state on the bus, then waits 50 ms, then waits 1000 ms, then  *)
(* runs the handshake (0x3 three times with 4.5 ms waits, 0x2,             *)
(* FunctionSet, DisplayControl, clear, EntryModeSet, ReturnHome, 2 ms),    *)
(* with nothing else written in between.                                   *)
(***************************************************************************)
C3_InitOrderAsStated ==
    (call.op = "init" /\ ret = "ok") =>
        Abs(bus) = <<<<"w", lcd.backlight>>, <<"d", 50000>>, <<"d", 1000000>>>>
                       \o ExpHandshake(lcd.backlight, RowsOf(lcd))

(***************************************************************************)
(* C3 amended: init() on a bus that does not fail waits 50 ms, then        *)
(* asserts the backlight state on the bus, then waits 1000 ms, then runs   *)
(* the handshake, with nothing else written in between.                    *)
(***************************************************************************)
C3_InitOrder ==
    (call.op = "init" /\ ret = "ok") =>
        Abs(bus) = <<<<"d", 50000>>, <<"w", lcd.backlight>>, <<"d", 1000000>>>>
                       \o ExpHandshake(lcd.backlight, RowsOf(lcd))

C3_Witness ==
    /\ call.op = "init" /\ ret = "ok"
    /\ lcd.variant = "Lcd" /\ lcd.rows = 1 /\ lcd.backlight = 8
    /\ Len(bus) = 78

(***************************************************************************)
(* C4: a failure of the underlying bus write during any operation is       *)
(* returned to the caller as a recoverable error result; no operation ends *)
(* in a panic because of a bus fault.                                      *)
(***************************************************************************)
C4_BusFaultIsRecoverable == ret # PanicExpect

(***************************************************************************)
(* C5: for every col and every row >= rows, set_cursor(col, row) fails     *)
(* with the row-out-of-bounds error, performs no bus write and leaves      *)
(* current_line and all other driver state unchanged.                      *)
(***************************************************************************)
C5_RowOutOfBounds ==
    [][(call.op = "idle" /\ call'.op = "set_cursor" /\ call'.a[2] >= RowsOf(lcd))
           => (ret' = "Row out of bounds" /\ bus' = <<>> /\ lcd' = lcd)]_vars

C5_Witness ==
    /\ call.op = "set_cursor" /\ ret = "Row out of bounds"
    /\ lcd.variant = "Lcd" /\ lcd.rows = 4 /\ call.a = <<15, 4>>
    /\ lcd.current_line = 3

(***************************************************************************)
(* The row-offset table as the specification gives it.                     *)
(***************************************************************************)
ExpOffset(rows, row) ==
    CASE rows = 1 -> 0
      [] rows = 2 -> IF row = 0 THEN 0 ELSE 64
      [] rows = 4 -> IF row = 0 THEN 0 ELSE IF row = 1 THEN 64 ELSE IF row = 2 THEN 20 ELSE 84

\* SETDDRAMADDR (0x80) | x for a byte x.
ExpSetDdram(x) == IF x >= 128 THEN x ELSE 128 + x

(***************************************************************************)
(* C6: for rows in {1, 2, 4} and row < rows, a successful                  *)
(* set_cursor(col, row) of Lcd sends exactly one COMMAND, whose value is   *)
(* SETDDRAMADDR (0x80) | (col + offset[row]) in 8-bit arithmetic, with     *)
(* offsets [0x00], [0x00, 0x40] and [0x00, 0x40, 0x14, 0x54], and then     *)
(* sets current_line = row.                                                *)
(***************************************************************************)
C6_SetCursorCommand ==
    (call.op = "set_cursor" /\ ret = "ok" /\ lcd.variant = "Lcd") =>
        /\ lcd.rows \in {1, 2, 4}
        /\ call.a[2] < lcd.rows
        /\ Abs(bus) = ExpSend(ExpSetDdram((call.a[1] + ExpOffset(lcd.rows, call.a[2])) % 256),
                              0, lcd.backlight)
        /\ lcd.current_line = call.a[2]

C6_Witness ==
    /\ call.op = "set_cursor" /\ ret = "ok"
    /\ lcd.variant = "Lcd" /\ lcd.rows = 4 /\ call.a = <<15, 3>>
    /\ lcd.current_line = 3
    /\ Len(bus) = 10

(***************************************************************************)
(* The row a cursor operation of Lcd asks set_cursor for: the argument of  *)
(* set_cursor, row 0 for print_long_str (its first set_cursor(0, 0)), and  *)
(* for next_line the current_line it has just computed and stored.         *)
(***************************************************************************)
CursorOps == {"set_cursor", "print_long_str", "next_line"}

RequestedRow ==
    CASE call.op = "set_cursor" -> call.a[2]
      [] call.op = "print_long_str" -> 0
      [] call.op = "next_line" -> lcd.current_line

UnsupportedRows == lcd.variant = "Lcd" /\ lcd.rows \notin {1, 2, 4}

(***************************************************************************)
(* C7 as stated: on a display constructed with a row count outside         *)
(* {1, 2, 4}, every cursor operation (set_cursor, print_long_str,          *)
(* next_line) fails with the unsupported-geometry error.                   *)
(***************************************************************************)
C7_UnsupportedGeometryAlways ==
    (UnsupportedRows /\ call.op \in CursorOps) => ret = "Invalid number of rows"

(***************************************************************************)
(* C7 amended: on a display constructed with a row count outside           *)
(* {1, 2, 4}, every cursor operation fails without a bus write: with the   *)
(* unsupported-geometry error when the row it asks for is below rows, and  *)
(* with the row-out-of-bounds error when that row is rows or more (always, *)
(* with rows = 0).                                                         *)
(***************************************************************************)
C7_UnsupportedGeometry ==
    (UnsupportedRows /\ call.op \in CursorOps) =>
        /\ bus = <<>>
        /\ ret = IF RequestedRow < lcd.rows THEN "Invalid number of rows"
                 ELSE "Row out of bounds"

C7_Witness ==
    /\ UnsupportedRows /\ lcd.rows = 3
    /\ call.op = "next_line" /\ ret = "Invalid number of rows"
    /\ lcd.current_line = 2

(***************************************************************************)
(* C8: create_custom_chars(slot, bitmap) with slot > 7 fails with the      *)
(* slot-out-of-bounds error without any bus write; with slot <= 7 and an   *)
(* 8-byte bitmap it performs exactly 9 sends in order: COMMAND             *)
(* SETCGRAMADDR (0x40) | (slot << 3), then DATA bitmap[0] .. bitmap[7].    *)
(***************************************************************************)
C8_CreateCustomChars ==
    call.op = "create_custom_chars" =>
        LET slot == call.a[1]
            bitmap == call.a[2]
            bl == lcd.backlight
        IN  /\ slot > 7 =>
                (ret = "Custom character location out of bounds" /\ bus = <<>>)
            /\ (slot <= 7 /\ Len(bitmap) = 8) =>
                /\ ret = "ok"
                /\ Abs(bus) = ExpSend(64 + slot * 8, 0, bl)
                                 \o ExpSend(bitmap[1], 1, bl) \o ExpSend(bitmap[2], 1, bl)
                                 \o ExpSend(bitmap[3], 1, bl) \o ExpSend(bitmap[4], 1, bl)
                                 \o ExpSend(bitmap[5], 1, bl) \o ExpSend(bitmap[6], 1, bl)
                                 \o ExpSend(bitmap[7], 1, bl) \o ExpSend(bitmap[8], 1, bl)

C8_Witness ==
    /\ call.op = "create_custom_chars" /\ ret = "ok"
    /\ call.a[1] = 7 /\ Len(call.a[2]) = 8
    /\ Len(bus) = 90

C8_WitnessSlot8 ==
    /\ call.op = "create_custom_chars" /\ call.a[1] = 8
    /\ ret = "Custom character location out of bounds"

(***************************************************************************)
(* The log of print_long_str(str) that places the character of index i     *)
(* (0-based) at column Col(i) of row Row(i): set_cursor(0, 0), then for    *)
(* each i in order set_cursor(Col(i), Row(i)) and the character as DATA.   *)
(***************************************************************************)
ExpPlaced(d, str, i, Col(_), Row(_)) ==
    ExpSend(ExpSetDdram((Col(i) + ExpOffset(d.rows, Row(i))) % 256), 0, d.backlight)
        \o ExpSend(str[i + 1] % 256, 1, d.backlight)

ExpLongStr(d, str, Col(_), Row(_)) ==
    [k \in 1..(10 + 20 * Len(str)) |->
        IF k <= 10 THEN ExpSend(128, 0, d.backlight)[k]
        ELSE ExpPlaced(d, str, (k - 11) \div 20, Col, Row)[((k - 11) % 20) + 1]]

(***************************************************************************)
(* C9: print_long_str(s) first sets the cursor to (0, 0) and then, for     *)
(* every character index i of s, positions the cursor at col = i mod cols  *)
(* and row = i div cols, with the row replaced by 0 whenever               *)
(* i div cols >= rows, and sends that character as DATA; it never fails    *)
(* because the text overflows the display.                                 *)
(***************************************************************************)
C9_PrintLongStrLayout ==
    (call.op = "print_long_str" /\ lcd.rows \in {1, 2, 4}) =>
        /\ ret = "ok"
        /\ Abs(bus) = ExpLongStr(lcd, call.a[1],
                                 LAMBDA i : i % lcd.cols,
                                 LAMBDA i : IF i \div lcd.cols >= lcd.rows THEN 0
                                            ELSE i \div lcd.cols)

\* The same with the index narrowed to 8 bits before the division, as
\* (i as u8) % cols and (i as u8) / cols compute it.
C9_PrintLongStrLayoutU8 ==
    (call.op = "print_long_str" /\ lcd.rows \in {1, 2, 4}) =>
        /\ ret = "ok"
        /\ Abs(bus) = ExpLongStr(lcd, call.a[1],
                                 LAMBDA i : (i % 256) % lcd.cols,
                                 LAMBDA i : IF (i % 256) \div lcd.cols >= lcd.rows THEN 0
                                            ELSE (i % 256) \div lcd.cols)

\* On a 16x2 display the character of index 32 goes out right after the command
\* that sets DDRAM address 0x00 (col 0, row 0).
C9_Index32OnTwoRows ==
    (call.op = "print_long_str" /\ ret = "ok" /\ lcd.cols = 16 /\ lcd.rows = 2
        /\ Len(call.a[1]) > 32)
    => /\ SubSeq(Abs(bus), 10 + 20 * 32 + 1, 10 + 20 * 32 + 10)
              = ExpSend(128, 0, lcd.backlight)
       /\ SubSeq(Abs(bus), 10 + 20 * 32 + 11, 10 + 20 * 32 + 20)
              = ExpSend(call.a[1][33] % 256, 1, lcd.backlight)

C11_NextLineWraps ==
    [][(call.op = "idle" /\ call'.op = "next_line" /\ lcd.rows \in {1, 2, 4}
            /\ lcd.current_line < lcd.rows)
           => IF lcd.rows = 1
              THEN ret' # "ok" /\ bus' = <<>> /\ lcd' = lcd
              ELSE /\ ret' = "ok"
                   /\ lcd' = [lcd EXCEPT
                          !.current_line = (lcd.current_line + 1) % lcd.rows]
                   /\ Abs(bus') = ExpSend(
                          ExpSetDdram(ExpOffset(lcd.rows, lcd'.current_line)),
                          0, lcd.backlight)]_vars

\* The part of C11 the code does satisfy: below the last row next_line() moves
\* to column 0 of the following row, and on one row it fails without effect.
C11_NextLineBelowLastRow ==
    [][(call.op = "idle" /\ call'.op = "next_line" /\ lcd.rows \in {1, 2, 4}
            /\ lcd.current_line + 1 < lcd.rows)
           => /\ ret' = "ok"
              /\ lcd' = [lcd EXCEPT !.current_line = lcd.current_line + 1]
              /\ Abs(bus') = ExpSend(
                     ExpSetDdram(ExpOffset(lcd.rows, lcd.current_line + 1)),
                     0, lcd.backlight)]_vars

(***************************************************************************)
(* The controller side of the bus, read from the log.  The expander puts   *)
(* every byte it receives on its pins; the controller latches the upper    *)
(* four pins and RS when Enable falls.  It powers up taking each latch as  *)
(* one instruction, and pairs nibbles from the first function-set latch    *)
(* that selects the 4-bit interface (upper nibble 0010, RS low).           *)
(***************************************************************************)
\* The bytes that were on the pins when Enable fell, in order.
Latches(bytes) ==
    LET falls == SelectSeq([i \in 1..Len(bytes) |-> i],
                     LAMBDA i : /\ i < Len(bytes)
                                /\ EnBit(bytes[i]) = 1
                                /\ EnBit(bytes[i + 1]) = 0)
    IN  [j \in 1..Len(falls) |->
            [hi |-> bytes[falls[j]] \div 16, rs |-> bytes[falls[j]] % 2]] \o <<>>

\* The index of the latch that commits the 4-bit interface (0: none yet).
Commit4(n) ==
    LET C == {k \in 1..Len(n) : n[k].hi = 2 /\ n[k].rs = 0}
    IN  IF C = {} THEN 0 ELSE CHOOSE k \in C : \A j \in C : k <= j

\* The nibbles latched since the 4-bit interface was committed.
Nibbles(bytes) ==
    LET n == Latches(bytes)
        k == Commit4(n)
    IN  IF k = 0 THEN <<>> ELSE SubSeq(n, k + 1, Len(n))

\* The sends the controller has assembled: value, and RS of the first nibble.
Sends(bytes) ==
    LET n == Nibbles(bytes)
    IN  [j \in 1..(Len(n) \div 2) |->
            [v |-> n[2 * j - 1].hi * 16 + n[2 * j].hi, rs |-> n[2 * j - 1].rs]] \o <<>>

\* What the controller has received in this state.
Received == Sends(Bytes(bus))

\* The elements of s after the last one that satisfies P (all of s if none does).
AfterLast(s, P(_)) ==
    LET I == {i \in 1..Len(s) : P(s[i])}
        last == IF I = {} THEN 0 ELSE CHOOSE i \in I : \A j \in I : j <= i
    IN  SubSeq(s, last + 1, Len(s))

ExpCommand(value) == [v |-> value, rs |-> 0]

ExpData(str) == [i \in 1..Len(str) |-> [v |-> str[i] % 256, rs |-> 1]]

\* main has returned from its last call and every call returned Ok.
MainDone == call.prog = "main" /\ call.pc = Len(MainProgram) /\ call.faults = 0

\* What main has sent since its clear().
MainText == AfterLast(Received, LAMBDA e : e = ExpCommand(1))

(***************************************************************************)
(* C12 as stated: after init() on a 16x2 display, set_cursor(0,0),         *)
(* print_str("Happy Bday!"), set_cursor(0,1), print_str("Enjoy your        *)
(* day!") produce, in order, the set-DDRAM command for address 0x00, 11    *)
(* DATA sends spelling the first string, the set-DDRAM command for address *)
(* 0x40, and 16 DATA sends spelling the second string.                     *)
(***************************************************************************)
C12_MainPrintsAsStated ==
    MainDone =>
        /\ Len(MainText) = 1 + 11 + 1 + 16
        /\ MainText[1] = ExpCommand(128)
        /\ SubSeq(MainText, 2, 12) = ExpData(HappyBday)
        /\ MainText[13] = ExpCommand(192)
        /\ \A i \in 14..29 : MainText[i].rs = 1
        /\ \A i \in 1..Len(EnjoyYourDay) : MainText[13 + i] = ExpData(EnjoyYourDay)[i]

(***************************************************************************)
(* C12: as above, with 15 DATA sends spelling the second string (it has 15 *)
(* characters); and every print_str(s) that returns Ok has added to what   *)
(* the controller received exactly one DATA send per character of s, in    *)
(* order.                                                                  *)
(***************************************************************************)
C12_MainPrints ==
    /\ [](MainDone =>
            MainText = <<ExpCommand(128)>> \o ExpData(HappyBday)
                           \o <<ExpCommand(192)>> \o ExpData(EnjoyYourDay))
    /\ [][(call'.op = "print_str" /\ ret' = "ok" /\ call'.faults = 0)
             => Sends(Bytes(bus')) = Received \o ExpData(call'.a[1])]_vars

C12_Witness ==
    /\ MainDone
    /\ lcd.variant = "SimpleLcd"
    /\ Len(MainText) = 28
    /\ MainText[28] = [v |-> 33, rs |-> 1]

(***************************************************************************)
(* C13: after a successful init(), started from any prior driver state     *)
(* (any flag bits set by earlier operations, any current_line), the state  *)
(* is display_control = DISPLAY_ON only, display_mode = ENTRY_LEFT only,   *)
(* current_line = 0 (Lcd; SimpleLcd keeps no line), every other field as   *)
(* before, and the last command the controller received is ReturnHome      *)
(* (0x02), which leaves its cursor at DDRAM address 0.                     *)
(***************************************************************************)
C13_StateAfterInit ==
    /\ [][(call.op = "idle" /\ call'.op = "init" /\ ret' = "ok")
             => lcd' = IF lcd.variant = "Lcd"
                       THEN [lcd EXCEPT !.display_control = 4, !.display_mode = 2,
                                        !.current_line = 0]
                       ELSE [lcd EXCEPT !.display_control = 4, !.display_mode = 2]]_vars
    /\ []((call.op = "init" /\ ret = "ok")
             => /\ Received # <<>>
                /\ Received[Len(Received)] = ExpCommand(2))

C13_Witness ==
    /\ call.op = "init" /\ ret = "ok"
    /\ lcd.variant = "Lcd" /\ lcd.rows = 4 /\ lcd.backlight = 8
    /\ lcd.display_control = 4 /\ lcd.display_mode = 2 /\ lcd.current_line = 0
    /\ Received = <<ExpCommand(40), ExpCommand(12), ExpCommand(1), ExpCommand(6),
                    ExpCommand(2)>>

\* x with the bit (a power of two) set or cleared.
ExpWithBit(x, bit, on) ==
    LET has == (x \div bit) % 2 = 1
    IN  IF on THEN (IF has THEN x ELSE x + bit) ELSE (IF has THEN x - bit ELSE x)

\* Per flag operation: the field, the bit, and whether the call sets it.
ExpFlag(c) ==
    CASE c.op = "display_on" -> <<"display_control", 4, TRUE>>
      [] c.op = "display_off" -> <<"display_control", 4, FALSE>>
      [] c.op = "cursor" -> <<"display_control", 2, c.a[1]>>
      [] c.op = "blink" -> <<"display_control", 1, c.a[1]>>
      [] c.op = "autoscroll" -> <<"display_mode", 1, c.a[1]>>
      [] c.op = "left_to_right" -> <<"display_mode", 2, TRUE>>
      [] c.op = "right_to_left" -> <<"display_mode", 2, FALSE>>

FlagOps ==
    {"display_on", "display_off", "cursor", "blink", "autoscroll", "left_to_right",
     "right_to_left"}

(***************************************************************************)
(* C14: each of display_on, display_off, cursor(b), blink(b),              *)
(* autoscroll(b), left_to_right and right_to_left sets or clears exactly   *)
(* one bit of display_control or display_mode, leaves every other bit of   *)
(* both fields, the backlight field and current_line unchanged, and then   *)
(* sends exactly one COMMAND equal to DISPLAYCONTROL (0x08) |              *)
(* display_control or ENTRYMODESET (0x04) | display_mode, computed from    *)
(* the full updated field.                                                 *)
(***************************************************************************)
C14_FlagOperations ==
    [][(call.op = "idle" /\ call'.op \in FlagOps /\ ret' = "ok")
          => LET f == ExpFlag(call')
             IN  /\ lcd' = [lcd EXCEPT ![f[1]] = ExpWithBit(@, f[2], f[3])]
                 /\ Abs(bus') =
                        ExpSend(IF f[1] = "display_control"
                                THEN 8 + lcd'.display_control
                                ELSE 4 + lcd'.display_mode,
                                0, lcd.backlight)]_vars

\* cursor(true) with display and blink already on: 0x08 | 0x07 goes out.
C14_Witness ==
    /\ call.op = "cursor" /\ call.a = <<TRUE>> /\ ret = "ok"
    /\ lcd.display_control = 7 /\ lcd.display_mode = 3
    /\ lcd.current_line = 1 /\ lcd.backlight = 8
    /\ Abs(bus) = ExpSend(15, 0, 8)

(***************************************************************************)
(* C15: backlight_on and backlight_off set the backlight field (0x08 and   *)
(* 0x00) and immediately perform exactly one bus write, of the latch byte: *)
(* the backlight bit alone with Enable low, so that the controller latches *)
(* no nibble; display_control, display_mode and current_line are           *)
(* unchanged.  The latch byte is the data byte of the write, the last byte *)
(* of its payload.                                                         *)
(***************************************************************************)
C15_BacklightWritesAtOnce ==
    [][(call.op = "idle" /\ call'.op \in {"backlight_on", "backlight_off"}
            /\ ret' = "ok")
          => /\ lcd' = [lcd EXCEPT
                    !.backlight = IF call'.op = "backlight_on" THEN 8 ELSE 0]
             /\ Abs(bus') = <<<<"w", lcd'.backlight>>>>
             /\ Latches(Bytes(bus')) = <<>>]_vars

C15_Witness ==
    /\ call.op = "backlight_off" /\ ret = "ok"
    /\ lcd.backlight = 0 /\ lcd.display_control = 7 /\ lcd.current_line = 1
    /\ Len(bus) = 1

MultiStepOps == {"init", "print_str", "print_long_str", "create_custom_chars"}

\* What the call c on the driver d puts on the bus when no write fails.
FaultFreeLog(d, c) ==
    LET eff == CASE c.op = "init" ->
                        IF d.variant = "Lcd" THEN init(d) ELSE SimpleLcd_init(d)
                 [] c.op = "print_str" ->
                        IF d.variant = "Lcd" THEN print_str(d, c.a[1])
                        ELSE SimpleLcd_print_str(d, c.a[1])
                 [] c.op = "print_long_str" -> print_long_str(d, c.a[1])
                 [] c.op = "create_custom_chars" ->
                        create_custom_chars(d, c.a[1], c.a[2])
    IN  Exec(d, eff, 0).log

\* The number of I2C writes in a log.
WritesIn(log) == Len(SelectSeq(log, LAMBDA e : e.k = "w"))

\* A write of the call failed.
BusFault(r) == r \in {"I2C write failed", PanicExpect}

\* The call stopped at its failing write: the log is what the fault-free call
\* writes up to, and without, its write number c.fail.
StoppedAtFault(d, c, log) ==
    /\ WritesIn(log) = c.fail - 1
    /\ log = SubSeq(FaultFreeLog(d, c), 1, Len(log))
    /\ Len(log) < Len(FaultFreeLog(d, c))
    /\ FaultFreeLog(d, c)[Len(log) + 1].k = "w"

(***************************************************************************)
(* C16: when a bus write fails inside a multi-step operation (init,        *)
(* print_str, print_long_str, create_custom_chars), the operation stops at *)
(* that first failing sub-step: every bus write before it was issued in    *)
(* order, no bus write is issued after it, nothing is retried, and the     *)
(* failure is reported to the caller (the call returns an error; it does   *)
(* not abort the process).                                                 *)
(***************************************************************************)
C16_StopsAtFirstFailure ==
    [][(call.op = "idle" /\ call'.op \in MultiStepOps /\ BusFault(ret'))
          => /\ StoppedAtFault(lcd, call', bus')
             /\ ret' \notin Panics]_vars

\* The part of C16 that holds of both drivers: the call stops at the failing write.
C16_StopsAtFailingWrite ==
    [][(call.op = "idle" /\ call'.op \in MultiStepOps /\ BusFault(ret'))
          => StoppedAtFault(lcd, call', bus')]_vars

\* C16 holds of SimpleLcd, whose init and print_str return the error.
C16_SimpleLcdStopsAtFirstFailure ==
    [][(call.op = "idle" /\ call'.op \in MultiStepOps /\ BusFault(ret')
            /\ lcd.variant = "SimpleLcd")
          => /\ StoppedAtFault(lcd, call', bus')
             /\ ret' = "I2C write failed"]_vars

\* A command that sets the controller's address counter: clear display (0x01),
\* return home (0x02, 0x03), set CGRAM address (0x40..0x7F), set DDRAM address
\* (0x80..0xFF).
SetsAddress(e) == e.rs = 0 /\ (e.v \in 1..3 \/ e.v >= 64)

\* The RAM the i-th send of s goes to, if it is a DATA send: the one selected by
\* the last address-setting command before it (DDRAM from power-up).
Dest(s, i) ==
    LET I == {j \in 1..(i - 1) : SetsAddress(s[j])}
        last == IF I = {} THEN 0 ELSE CHOOSE j \in I : \A k \in I : k <= j
    IN  IF last # 0 /\ s[last].v \in 64..127 THEN "CGRAM" ELSE "DDRAM"

(***************************************************************************)
(* C17: after a successful create_custom_chars call the controller's       *)
(* address pointer is in CGRAM: a print or print_str issued before the     *)
(* next set_cursor (or clear/home) writes its data bytes into CGRAM and    *)
(* not into DDRAM, and a set_cursor (or clear) call restores DDRAM         *)
(* addressing for the prints that follow it.  Stated of the DATA sends the  *)
(* controller received last, those of the print or print_str that has just *)
(* returned, by the call the program made before it.                       *)
(***************************************************************************)
C17_PrintAfterCustomChars ==
    (/\ call.op \in {"print", "print_str"} /\ ret = "ok" /\ call.faults = 0
     /\ Programs[call.prog][call.pc - 1][1]
            \in {"create_custom_chars", "set_cursor", "clear"})
    => LET got == Received
           text == IF call.op = "print" THEN call.a ELSE call.a[1]
           before == Programs[call.prog][call.pc - 1][1]
       IN  /\ Len(got) >= Len(text)
           /\ SubSeq(got, Len(got) - Len(text) + 1, Len(got)) = ExpData(text)
           /\ \A i \in (Len(got) - Len(text) + 1)..Len(got) :
                  Dest(got, i) = IF before = "create_custom_chars"
                                 THEN "CGRAM" ELSE "DDRAM"

\* print('H') right after create_custom_chars(0, glyph): 'H' lands in CGRAM.
C17_Witness ==
    /\ call.prog = "glyph" /\ call.pc = 3 /\ call.faults = 0
    /\ call.op = "print" /\ ret = "ok"
    /\ Received[Len(Received)] = [v |-> 72, rs |-> 1]
    /\ Dest(Received, Len(Received)) = "CGRAM"

\* print_str after set_cursor(0, 1), later in the same session: DDRAM again.
C17_WitnessRestored ==
    /\ call.prog = "glyph" /\ call.pc = 5 /\ call.faults = 0
    /\ call.op = "print_str" /\ ret = "ok"
    /\ Dest(Received, Len(Received)) = "DDRAM"

(***************************************************************************)
(* C18: in print_long_str the position of character index i is computed    *)
(* from the full index: for strings longer than 255 characters, every      *)
(* index i >= 256 is still placed at col = i mod cols and row = i div cols *)
(* (0 when i div cols >= rows), i.e. narrowing the index to 8 bits does    *)
(* not change the computed column or row.                                  *)
(***************************************************************************)
C18_FullIndexPlacement ==
    (call.op = "print_long_str" /\ ret = "ok" /\ lcd.rows \in {1, 2, 4}) =>
        \A i \in 256..(Len(call.a[1]) - 1) :
            SubSeq(Abs(bus), 10 + 20 * i + 1, 10 + 20 * i + 20)
                = ExpPlaced(lcd, call.a[1], i,
                            LAMBDA j : j % lcd.cols,
                            LAMBDA j : IF j \div lcd.cols >= lcd.rows THEN 0
                                       ELSE j \div lcd.cols)

\* What the code does with those indices: the position is that of i mod 256.
C18_NarrowedIndexPlacement ==
    (call.op = "print_long_str" /\ ret = "ok" /\ lcd.rows \in {1, 2, 4}) =>
        \A i \in 256..(Len(call.a[1]) - 1) :
            SubSeq(Abs(bus), 10 + 20 * i + 1, 10 + 20 * i + 20)
                = ExpPlaced(lcd, call.a[1], i,
                            LAMBDA j : (j % 256) % lcd.cols,
                            LAMBDA j : IF (j % 256) \div lcd.cols >= lcd.rows THEN 0
                                       ELSE (j % 256) \div lcd.cols)

\* The data bytes of the writes of a log, in order.
DataBytes(log) ==
    LET w == SelectSeq(log, LAMBDA e : e.k = "w")
    IN  [i \in 1..Len(w) |-> w[i].b[Len(w[i].b)]] \o <<>>

(***************************************************************************)
(* C19: nibble framing is lossless.  For every value in 0..255, every mode *)
(* in {COMMAND, DATA} and either backlight state, a controller that        *)
(* latches the upper four bits of the bus byte on each falling Enable edge *)
(* and reassembles (first nibble, second nibble) recovers exactly value;   *)
(* the RS bit is equal to mode and the four data bits are unchanged across *)
(* the three bus writes of each nibble (write, Enable high, Enable low).   *)
(***************************************************************************)
C19_NibbleFramingLossless ==
    (call.op = "send" /\ ret = "ok") =>
        LET n == Latches(Bytes(bus))
            w == DataBytes(bus)
        IN  /\ Len(n) = 2
            /\ n[1].hi * 16 + n[2].hi = call.a[1]
            /\ n[1].rs = call.a[2] /\ n[2].rs = call.a[2]
            /\ Len(w) = 6
            /\ \A k \in 1..3 : w[k] \div 16 = call.a[1] \div 16 /\ w[k] % 2 = call.a[2]
            /\ \A k \in 4..6 : w[k] \div 16 = call.a[1] % 16 /\ w[k] % 2 = call.a[2]

\* send(0x5A, DATA) under backlight on, through Lcd.
C19_Witness ==
    /\ call.op = "send" /\ ret = "ok"
    /\ call.a = <<90, 1>>
    /\ lcd.variant = "Lcd" /\ lcd.backlight = 8
    /\ Latches(Bytes(bus)) = <<[hi |-> 5, rs |-> 1], [hi |-> 10, rs |-> 1]>>

\* The controller's address counter after the sends s, addressing DDRAM: the
\* address of the last address-setting command (0 for clear and home) plus one
\* per DATA send after it (entry mode of init: increment), in 7 bits.
AddressCounter(s) ==
    LET I == {j \in 1..Len(s) : SetsAddress(s[j])}
        last == IF I = {} THEN 0 ELSE CHOOSE j \in I : \A k \in I : k <= j
        base == IF last = 0 \/ s[last].v < 128 THEN 0 ELSE s[last].v - 128
    IN  (base + Cardinality({j \in (last + 1)..Len(s) : s[j].rs = 1})) % 128

\* The display row a DDRAM address belongs to: rows start at 0x00, 0x40 and, on
\* four rows, the third and fourth continue the first and second after cols.
ExpRowOf(rows, cols, a) ==
    IF rows = 1 THEN 0
    ELSE IF rows = 2 THEN (IF a < 64 THEN 0 ELSE 1)
    ELSE IF a < cols THEN 0
    ELSE IF a < 64 THEN 2
    ELSE IF a < 64 + cols THEN 1
    ELSE 3

CursorMoves == {"set_cursor", "clear", "home", "next_line", "print_long_str"}

(***************************************************************************)
(* C20: after every successful cursor-moving operation (set_cursor, clear, *)
(* home, next_line, print_long_str) the driver's current_line equals the   *)
(* row that the controller's DDRAM address pointer is actually in; in      *)
(* particular after home() following set_cursor(c, r) with r > 0,          *)
(* current_line is 0.                                                      *)
(***************************************************************************)
C20_CurrentLineTracksController ==
    (/\ lcd.variant = "Lcd" /\ call.op \in CursorMoves
     /\ ret = "ok" /\ call.faults = 0)
    => lcd.current_line = ExpRowOf(lcd.rows, lcd.cols, AddressCounter(Received))

\* The same of the operations other than home, which the code does satisfy in
\* these sessions.
C20_CurrentLineTracksButForHome ==
    (/\ lcd.variant = "Lcd" /\ call.op \in CursorMoves \ {"home"}
     /\ ret = "ok" /\ call.faults = 0
     /\ \A k \in 1..call.pc : Programs[call.prog][k][1] # "home")
    => lcd.current_line = ExpRowOf(lcd.rows, lcd.cols, AddressCounter(Received))

\* What home() leaves: the controller in row 0, current_line where set_cursor put it.
C20_HomeKeepsCurrentLine ==
    (call.prog = "cursor" /\ call.pc = 3 /\ call.faults = 0)
    => /\ call.op = "home" /\ ret = "ok"
       /\ AddressCounter(Received) = 0
       /\ lcd.current_line = 1

\* The nibbles of a log paired up from its first latch, as the controller pairs
\* them once it is on the 4-bit interface.
Paired(log) ==
    LET n == Latches(Bytes(log))
    IN  [j \in 1..(Len(n) \div 2) |->
            [v |-> n[2 * j - 1].hi * 16 + n[2 * j].hi, rs |-> n[2 * j - 1].rs]] \o <<>>

\* The set-DDRAM-address commands (0x80..0xFF, RS low) that reached the bus.
SetDdramIn(log) == SelectSeq(Paired(log), LAMBDA e : e.rs = 0 /\ e.v >= 128)

\* The <<col, row>> the k-th set_cursor of the call in progress was made with.
AskedAt(k) ==
    CASE call.op = "set_cursor" -> call.a
      [] call.op = "next_line" -> <<0, lcd.current_line>>
      [] call.op = "print_long_str" ->
            IF k = 1 THEN <<0, 0>>
            ELSE LET i == (k - 2) % 256
                 IN  <<i % lcd.cols,
                       IF i \div lcd.cols >= lcd.rows THEN 0 ELSE i \div lcd.cols>>

(***************************************************************************)
(* C21: in every reachable state, after any sequence of operations         *)
(* including failed ones, current_line <= rows; every set-DDRAM-address    *)
(* command that reaches the bus is the one of a set_cursor for a row       *)
(* < rows (and only set_cursor, next_line and print_long_str issue any);   *)
(* and the increment current_line += 1 in next_line is only executed when  *)
(* current_line < rows, so it never overflows the 8-bit field.             *)
(***************************************************************************)
C21_CurrentLineBounded ==
    /\ [](lcd.variant = "Lcd" => lcd.current_line <= lcd.rows)
    /\ [](lcd.variant = "Lcd" =>
            LET cmds == SetDdramIn(bus)
            IN  IF call.op \in CursorOps
                THEN \A k \in 1..Len(cmds) :
                        /\ lcd.rows \in {1, 2, 4}
                        /\ AskedAt(k)[2] < lcd.rows
                        /\ cmds[k].v = ExpSetDdram(
                               (AskedAt(k)[1] + ExpOffset(lcd.rows, AskedAt(k)[2])) % 256)
                ELSE cmds = <<>>)
    /\ [][(call'.op = "next_line" /\ lcd'.current_line = lcd.current_line + 1)
             => lcd.current_line < lcd.rows /\ lcd'.current_line <= 255]_vars

\* next_line() has failed on the last of four rows: current_line = rows, nothing
\* on the bus.
C21_Witness ==
    /\ call.op = "next_line" /\ ret = "Row out of bounds"
    /\ lcd.rows = 4 /\ lcd.current_line = 4
    /\ bus = <<>>

\* next_line() has moved to the last row of four.
C21_WitnessCommand ==
    /\ call.op = "next_line" /\ ret = "ok"
    /\ lcd.rows = 4 /\ lcd.current_line = 3
    /\ SetDdramIn(bus) = <<[v |-> 212, rs |-> 0]>>

\* The 4-bit interface has been committed, and the caller is alive.
Committed == ret \notin Panics /\ Commit4(Latches(Bytes(bus))) # 0

(***************************************************************************)
(* C22: whenever no operation is in progress, the controller has received  *)
(* an even number of nibbles (enable pulses) since init committed 4-bit    *)
(* mode, so the next send starts on a byte boundary; this holds after any  *)
(* sequence of operations, including operations that returned a bus-write  *)
(* error part-way through a send.                                          *)
(***************************************************************************)
C22_EvenNibbles == Committed => Len(Nibbles(Bytes(bus))) % 2 = 0

\* The same as long as every call has returned Ok.
C22_EvenNibblesWithoutFaults ==
    (Committed /\ call.faults = 0) => Len(Nibbles(Bytes(bus))) % 2 = 0

\* The columns of the display: SimpleLcd keeps none, and is taken at the widest
\* two-row display.
ColsOf(d) == IF d.variant = "Lcd" THEN d.cols ELSE 40

\* The call asked for a position on the display.
InRange == call.a[1] < ColsOf(lcd) /\ call.a[2] < RowsOf(lcd)

\* The address col + offset[row] that set_cursor is to send for the call.
ExpAddress == call.a[1] + ExpOffset(RowsOf(lcd), call.a[2])

\* The call put exactly one send on the bus, the command 0x80 + a with a in 7 bits,
\* and a gives back the position: row by the range it lies in, col by the offset.
AddressedLosslessly ==
    /\ ret = "ok"
    /\ ExpAddress < 128
    /\ Paired(bus) = <<ExpCommand(128 + ExpAddress)>>
    /\ LET a == Paired(bus)[1].v - 128
       IN  /\ ExpRowOf(RowsOf(lcd), ColsOf(lcd), a) = call.a[2]
           /\ a - ExpOffset(RowsOf(lcd), call.a[2]) = call.a[1]

(***************************************************************************)
(* C23 as stated: for the supported geometries (rows = 1, rows = 2 with    *)
(* cols <= 40, rows = 4 with cols <= 20), set_cursor maps distinct         *)
(* in-range positions (col < cols, row < rows) to distinct DDRAM           *)
(* addresses, and col + offset[row] always fits in 7 bits, so OR-ing with  *)
(* SETDDRAMADDR (0x80) loses nothing and the 8-bit addition does not       *)
(* overflow.                                                               *)
(***************************************************************************)
C23_AddressingAsStated ==
    (/\ call.op = "set_cursor" /\ InRange
     /\ \/ RowsOf(lcd) = 1
        \/ RowsOf(lcd) = 2 /\ ColsOf(lcd) <= 40
        \/ RowsOf(lcd) = 4 /\ ColsOf(lcd) <= 20)
    => AddressedLosslessly

(***************************************************************************)
(* C23: the same with one row bounded too (rows = 1 with cols <= 80, the   *)
(* controller's DDRAM); and for col values outside cols the address is not *)
(* clamped: on 40x2, set_cursor(64, 0) sends the command of position       *)
(* (0, 1), and set_cursor(200, 1) overflows the 8-bit addition (a panic in *)
(* a build that checks overflow, the address 264 - 256 = 8 of row 0        *)
(* otherwise).                                                             *)
(***************************************************************************)
C23_Addressing ==
    /\ (/\ call.op = "set_cursor" /\ InRange
        /\ \/ RowsOf(lcd) = 1 /\ ColsOf(lcd) <= 80
           \/ RowsOf(lcd) = 2 /\ ColsOf(lcd) <= 40
           \/ RowsOf(lcd) = 4 /\ ColsOf(lcd) <= 20)
       => AddressedLosslessly
    /\ (call.op = "set_cursor" /\ RowsOf(lcd) = 2 /\ call.a = <<64, 0>>)
       => ret = "ok" /\ Paired(bus) = <<ExpCommand(128 + 0 + 64)>>
    /\ (call.op = "set_cursor" /\ RowsOf(lcd) = 2 /\ call.a = <<200, 1>>)
       => IF profile THEN ret = PanicOverflow /\ bus = <<>>
          ELSE ret = "ok" /\ Paired(bus) = <<ExpCommand(128 + 8)>>

\* The last position of a 20x4 display: 19 + 0x54 = 0x67.
C23_Witness ==
    /\ call.op = "set_cursor" /\ ret = "ok"
    /\ lcd.variant = "Lcd" /\ lcd.rows = 4 /\ lcd.cols = 20
    /\ call.a = <<19, 3>>
    /\ Paired(bus) = <<ExpCommand(231)>>

\* A column outside the display that lands on the other row.
C23_WitnessAlias ==
    /\ call.op = "set_cursor" /\ ret = "ok"
    /\ lcd.variant = "Lcd" /\ lcd.rows = 2 /\ lcd.cols = 40
    /\ call.a = <<64, 0>>
    /\ Paired(bus) = <<ExpCommand(192)>>

\* A column that overflows the 8-bit addition.
C23_WitnessOverflow ==
    /\ call.op = "set_cursor" /\ ret = PanicOverflow
    /\ call.a = <<200, 1>>

====
